---- MODULE Spec2Model ----
(***************************************************************************)
(* Model of the weather refresh cache of AxleAPI.                          *)
(*                                                                         *)
(* WeatherCacheManager (services/weatherCacheManager) keeps one CacheEntry *)
(* object per coordinate key in a Map, and one setInterval handle per key  *)
(* in a second Map.  WeatherController.getWeather reads through it.        *)
(*                                                                         *)
(* Node runs every callback to its next await without interruption, so one *)
(* action of the model is one such run: the part of a handler before its   *)
(* await on getAdvancedWeatherData, or the part after it.  The merge       *)
(* engine itself is the environment here: a call to it is in flight for a  *)
(* while and then either resolves with a fresh result object or rejects    *)
(* with an Error.                                                          *)
(***************************************************************************)
EXTENDS Integers, Sequences, FiniteSets, TLC

(* ---------------------------- bounds ----------------------------------- *)

\* Date.now() is read from a clock that advances 0..MaxTime.
MaxTime == 1
\* Merge calls the model lets run: those the entry objects still alive have
\* counted (fetchCount + errorCount) plus those in flight.
MaxWork == 4
\* getWeather requests suspended in startCaching at the same time.
MaxPending == 2
\* refreshCacheEntry calls suspended in fetchWeatherData at the same time.
MaxRefreshing == 2

(* ---------------------------- inputs ----------------------------------- *)

\* Query strings of the requests.  Both latitudes pass validateLatitude and
\* denote the same number; they differ as text.
Lats == {"45.4", "45.40"}
Lons == {"-75.7"}
Coords == Lats \X Lons

\* getCacheKey: the template literal `${lat},${lon}`.
getCacheKey(lat, lon) == lat \o "," \o lon

Keys == {getCacheKey(c[1], c[2]) : c \in Coords}

\* parseFloat on the decimal strings above, as validateLatitude and
\* formatWeatherResponse apply it: an optional sign, digits, and an optional
\* point followed by digits.  The number is given in units of 10^-FracDigits.
FracDigits == 3
Digit == [d \in {"0", "1", "2", "3", "4", "5", "6", "7", "8", "9"} |->
            CASE d = "0" -> 0 [] d = "1" -> 1 [] d = "2" -> 2 [] d = "3" -> 3 [] d = "4" -> 4
              [] d = "5" -> 5 [] d = "6" -> 6 [] d = "7" -> 7 [] d = "8" -> 8 [] d = "9" -> 9]

RECURSIVE digitsValue(_)
digitsValue(s) ==
    IF Len(s) = 0 THEN 0
    ELSE 10 * digitsValue(SubSeq(s, 1, Len(s) - 1)) + Digit[SubSeq(s, Len(s), Len(s))]

RECURSIVE padRight(_, _)
padRight(s, n) == IF Len(s) >= n THEN SubSeq(s, 1, n) ELSE padRight(s \o "0", n)

parseFloat(s) ==
    LET neg == Len(s) > 0 /\ SubSeq(s, 1, 1) = "-"
        body == IF neg THEN SubSeq(s, 2, Len(s)) ELSE s
        points == {i \in 1..Len(body) : SubSeq(body, i, i) = "."}
        point == IF points = {} THEN Len(body) + 1
                 ELSE CHOOSE i \in points : \A j \in points : i <= j
        whole == digitsValue(SubSeq(body, 1, point - 1))
        frac == digitsValue(padRight(SubSeq(body, point + 1, Len(body)), FracDigits))
        magnitude == whole * 10^FracDigits + frac
    IN IF neg THEN 0 - magnitude ELSE magnitude

\* Messages of the Errors getAdvancedWeatherData rejects with.
ErrorMessages == {"Advanced weather service unavailable: Failed to fetch data from all weather sources"}

(* ---------------------------- objects ---------------------------------- *)

\* Object identities.  A CacheEntry object is named after the key it was
\* made for and a slot number; a slot is reused once nothing refers to the
\* object any more (garbage collection).  The interval handle armed by the
\* startCaching run that made an entry carries the entry's name.
Slots == 1..(MaxRefreshing + 2)
EntryIds == Keys \X Slots

\* Values that stand for "nothing", shaped like the values they replace.
Absent == <<"", 0>>           \* Map.get(key) === undefined; no entry, no handle
NoData == <<Absent, 0>>       \* no merge result
NoError == "undefined"        \* entry.lastError deleted or never set; no Error thrown
NoRet == [top |-> NoData, nested |-> NoData, cache |-> <<>>]
\* No statistics returned.
NoStats == [totalLocations |-> -1, totalFetches |-> -1, totalErrors |-> -1, averageAge |-> -1]
\* An object literal built by the call itself and stored nowhere else.
NewObject == <<Absent, 1>>
\* A heap slot holding no object.
Free == [data |-> NoData, timestamp |-> 0, lat |-> "", lon |-> "",
         lastError |-> NoError, fetchCount |-> 0, errorCount |-> 0]

VARIABLES
    cache,             \* this.cache: key -> reference to a CacheEntry object
    heap,              \* the CacheEntry objects, by identity
    refreshIntervals,  \* this.refreshIntervals: key -> interval handle
    intervals,         \* the interval handles that are armed (setInterval'ed, not cleared)
    isShuttingDown,    \* this.isShuttingDown
    now,               \* Date.now()
    pending,           \* startCaching calls awaiting fetchWeatherData, per (lat, lon)
    refreshing,        \* refreshCacheEntry calls awaiting fetchWeatherData, per captured entry
    ev,                \* the handler run that produced this state, with what it returned
    call,              \* a call of a function of the merge engine: its name and arguments
    result             \* whether that call has returned, and what it returned or threw

vars == <<cache, heap, refreshIntervals, intervals, isShuttingDown, now, pending, refreshing, ev,
          call, result>>

(* ---------------------------- helpers ---------------------------------- *)

Min(S) == CHOOSE x \in S : \A y \in S : x <= y

SumOver(f, S) ==
    LET RECURSIVE Sum(_)
        Sum(T) == IF T = {} THEN 0 ELSE LET x == CHOOSE y \in T : TRUE IN f[x] + Sum(T \ {x})
    IN Sum(S)

\* The CacheEntry objects something still refers to: the Map, or the local
\* variable `entry` of a suspended refreshCacheEntry.
Referenced(c, r) == {e \in EntryIds : r[e] > 0 \/ \E k \in Keys : c[k] = e}

\* Garbage collection: an object nothing refers to is gone.
Collect(h, c, r) == [e \in EntryIds |-> IF e \in Referenced(c, r) THEN h[e] ELSE Free]

\* A new CacheEntry object: the first free slot of the key.
FreshEntry(key) == <<key, Min({s \in Slots : heap[<<key, s>>] = Free})>>

\* The object a merge call resolves with is a new one each time: the n-th
\* result stored in entry e is named <<e, n>>.
FreshData(e, n) == <<e, n>>

\* The merge calls counted by the entry objects alive, plus those in flight.
Work == SumOver([e \in EntryIds |-> heap[e].fetchCount + heap[e].errorCount + refreshing[e]], EntryIds)
        + SumOver(pending, Coords)

Event(op, lat, lon, entry, ret, error) ==
    [op |-> op, lat |-> lat, lon |-> lon, entry |-> entry, ret |-> ret, error |-> error,
     stats |-> NoStats]

\* No function of the merge engine is being called; a call has not returned.
NoCall == [fn |-> "none", args |-> <<>>]
NotReturned == [done |-> FALSE, threw |-> FALSE, error |-> NoError, value |-> <<>>]

(* ---------------------------- Init -------------------------------------- *)

Init ==
    /\ cache = [k \in Keys |-> Absent]
    /\ heap = [e \in EntryIds |-> Free]
    /\ refreshIntervals = [k \in Keys |-> Absent]
    /\ intervals = {}
    /\ isShuttingDown = FALSE
    /\ now = 0
    /\ pending = [c \in Coords |-> 0]
    /\ refreshing = [e \in EntryIds |-> 0]
    /\ ev = Event("init", "", "", Absent, NoRet, NoError)
    /\ call = NoCall
    /\ result = NotReturned

(* ---------------------------- reads ------------------------------------- *)

\* getCachedData: null for an absent key, else a new object spreading
\* entry.data (its nested objects are entry.data's own) plus metadata.cache.
getCachedData(lat, lon) ==
    LET key == getCacheKey(lat, lon)
        entry == heap[cache[key]]
    IN IF cache[key] = Absent
       THEN NoRet
       ELSE [top |-> NewObject,
             nested |-> entry.data,
             cache |-> [cached |-> TRUE,
                        timestamp |-> entry.timestamp,
                        age |-> now - entry.timestamp,
                        fetchCount |-> entry.fetchCount,
                        errorCount |-> entry.errorCount,
                        lastError |-> entry.lastError]]

\* A getCachedData that marks the entry as used, as a least-recently-used
\* cache would.
GetCachedDataTouching(lat, lon) ==
    LET key == getCacheKey(lat, lon)
    IN /\ ev' = Event("read", lat, lon, cache[key], getCachedData(lat, lon), NoError)
       /\ heap' = IF cache[key] = Absent THEN heap
                  ELSE [heap EXCEPT ![cache[key]].timestamp = now]
       /\ UNCHANGED <<call, result, cache, refreshIntervals, intervals, isShuttingDown, now, pending,
                      refreshing>>

\* A call of getCachedData by itself (a public method of the exported
\* weatherCacheManager): it runs to its return without an await.
GetCachedData(lat, lon) ==
    /\ ev' = Event("read", lat, lon, cache[getCacheKey(lat, lon)], getCachedData(lat, lon), NoError)
    /\ UNCHANGED <<call, result, cache, heap, refreshIntervals, intervals, isShuttingDown, now, pending,
                   refreshing>>

\* A getCacheStats that counts every CacheEntry object still alive, in the
\* Map or not.
getCacheStatsOfAllObjects ==
    LET entries == {e \in EntryIds : heap[e] # Free}
    IN [totalLocations |-> Cardinality(entries),
        totalFetches |-> SumOver([e \in EntryIds |-> heap[e].fetchCount], entries),
        totalErrors |-> SumOver([e \in EntryIds |-> heap[e].errorCount], entries),
        averageAge |-> IF Cardinality(entries) > 0
                       THEN (SumOver([e \in EntryIds |-> now - heap[e].timestamp], entries)
                                * 10^FracDigits) \div Cardinality(entries)
                       ELSE 0]

\* getCacheStats: the number of values of the Map, the sums of their
\* fetchCount and errorCount, and the mean of their ages (in units of
\* 10^-FracDigits), 0 for an empty Map.
getCacheStats ==
    LET entries == {cache[k] : k \in Keys} \ {Absent}
    IN [totalLocations |-> Cardinality(entries),
        totalFetches |-> SumOver([e \in EntryIds |-> heap[e].fetchCount], entries),
        totalErrors |-> SumOver([e \in EntryIds |-> heap[e].errorCount], entries),
        averageAge |-> IF Cardinality(entries) > 0
                       THEN (SumOver([e \in EntryIds |-> now - heap[e].timestamp], entries)
                                * 10^FracDigits) \div Cardinality(entries)
                       ELSE 0]

\* A call of getCacheStats, as getCacheStatus makes it.
GetCacheStats ==
    /\ ev' = [Event("stats", "", "", Absent, NoRet, NoError) EXCEPT !.stats = getCacheStats]
    /\ UNCHANGED <<call, result, cache, heap, refreshIntervals, intervals, isShuttingDown, now, pending,
                   refreshing>>

\* getWeather, from its entry to its first await or its response: a cached
\* key is answered at once; for any other key startCaching is called, which
\* calls the merge engine and suspends.
GetWeather(lat, lon) ==
    LET key == getCacheKey(lat, lon)
        weatherData == getCachedData(lat, lon)
    IN IF weatherData # NoRet
       THEN /\ ev' = Event("hit", lat, lon, cache[key], weatherData, NoError)
            /\ UNCHANGED <<call, result, cache, heap, refreshIntervals, intervals, isShuttingDown, now,
                           pending, refreshing>>
       ELSE /\ SumOver(pending, Coords) < MaxPending
            /\ Work < MaxWork
            /\ pending' = [pending EXCEPT ![<<lat, lon>>] = @ + 1]
            /\ ev' = Event("miss", lat, lon, Absent, NoRet, NoError)
            /\ UNCHANGED <<call, result, cache, heap, refreshIntervals, intervals, isShuttingDown, now,
                           refreshing>>

(* ---------------------------- startCaching ------------------------------ *)

\* The CacheEntry literal of startCaching.
newCacheEntry(initialData, lat, lon, t) ==
    [data |-> initialData, timestamp |-> t, lat |-> lat, lon |-> lon,
     lastError |-> NoError, fetchCount |-> 1, errorCount |-> 0]

\* A startPeriodicRefresh that clears the existing handle and arms none.
armedAfterStartNotArming(key, lat, lon, id) ==
    {t \in intervals : t.id # refreshIntervals[key]}

\* A startPeriodicRefresh that arms a new handle without clearing the
\* existing one.
armedAfterStartNotClearing(key, lat, lon, id) ==
    intervals \cup {[id |-> id, lat |-> lat, lon |-> lon]}

\* startPeriodicRefresh: the armed handles after clearing the key's existing
\* handle, if any, and arming a new one.
armedAfterStart(key, lat, lon, id) ==
    {t \in intervals : t.id # refreshIntervals[key]}
        \cup {[id |-> id, lat |-> lat, lon |-> lon]}

\* startCaching after its await, the merge having resolved: the entry is
\* made and stored, the refresh is started, initialData is returned and
\* getWeather responds with it.
StartCachingResolved(lat, lon) ==
    LET key == getCacheKey(lat, lon)
        e == FreshEntry(key)
        initialData == FreshData(e, 1)
    IN /\ pending[<<lat, lon>>] > 0
       /\ pending' = [pending EXCEPT ![<<lat, lon>>] = @ - 1]
       /\ cache' = [cache EXCEPT ![key] = e]
       /\ heap' = Collect([heap EXCEPT ![e] = newCacheEntry(initialData, lat, lon, now)],
                          cache', refreshing)
       /\ intervals' = armedAfterStart(key, lat, lon, e)
       /\ refreshIntervals' = [refreshIntervals EXCEPT ![key] = e]
       /\ ev' = Event("seed", lat, lon, e,
                      [top |-> initialData, nested |-> initialData, cache |-> <<>>], NoError)
       /\ UNCHANGED <<call, result, isShuttingDown, now, refreshing>>

\* A startCaching that stores an entry recording the failure before rethrowing.
StartCachingRejectedStoringEntry(lat, lon, msg) ==
    LET key == getCacheKey(lat, lon)
        e == FreshEntry(key)
    IN /\ pending[<<lat, lon>>] > 0
       /\ pending' = [pending EXCEPT ![<<lat, lon>>] = @ - 1]
       /\ cache' = [cache EXCEPT ![key] = e]
       /\ heap' = Collect([heap EXCEPT ![e] = [newCacheEntry(NoData, lat, lon, now)
                                                EXCEPT !.lastError = msg]],
                          cache', refreshing)
       /\ ev' = Event("seedFailed", lat, lon, Absent, NoRet, msg)
       /\ UNCHANGED <<call, result, refreshIntervals, intervals, isShuttingDown, now, refreshing>>

\* startCaching after its await, the merge having rejected: the Error leaves
\* startCaching and getWeather's catch answers 500 with its message.
StartCachingRejected(lat, lon, msg) ==
    /\ pending[<<lat, lon>>] > 0
    /\ pending' = [pending EXCEPT ![<<lat, lon>>] = @ - 1]
    /\ ev' = Event("seedFailed", lat, lon, Absent, NoRet, msg)
    /\ UNCHANGED <<call, result, cache, heap, refreshIntervals, intervals, isShuttingDown, now, refreshing>>

(* ---------------------------- background refresh ------------------------ *)

\* The setInterval callback, to its await in refreshCacheEntry: nothing
\* during shutdown, nothing but a log line for a key with no entry, else the
\* merge engine is called with the entry captured.
TimerFires(t) ==
    LET key == getCacheKey(t.lat, t.lon)
        entry == cache[key]
    IN /\ t \in intervals
       /\ IF isShuttingDown
          THEN /\ ev' = Event("tickIgnored", t.lat, t.lon, Absent, NoRet, NoError)
               /\ UNCHANGED refreshing
          ELSE IF entry = Absent
          THEN /\ ev' = Event("tickNoEntry", t.lat, t.lon, Absent, NoRet, NoError)
               /\ UNCHANGED refreshing
          ELSE /\ SumOver(refreshing, EntryIds) < MaxRefreshing
               /\ Work < MaxWork
               /\ refreshing' = [refreshing EXCEPT ![entry] = @ + 1]
               /\ ev' = Event("tick", t.lat, t.lon, entry, NoRet, NoError)
       /\ UNCHANGED <<call, result, cache, heap, refreshIntervals, intervals, isShuttingDown, now, pending>>

\* A try block that forgets `delete entry.lastError`.
entryAfterSuccessKeepingError(entry, freshData, t) ==
    [entry EXCEPT !.data = freshData, !.timestamp = t, !.fetchCount = @ + 1]

\* A try block that assigns entry.data and leaves the other fields to a
\* later turn of the event loop.
entryAfterSuccessDataOnly(entry, freshData, t) ==
    [entry EXCEPT !.data = freshData]

\* The try block of refreshCacheEntry after its await.
entryAfterSuccess(entry, freshData, t) ==
    [entry EXCEPT !.data = freshData, !.timestamp = t, !.fetchCount = @ + 1,
                  !.lastError = NoError]

\* A catch block that also drops the stale data.
entryAfterFailureDroppingData(entry, msg) ==
    [entry EXCEPT !.data = NoData, !.errorCount = @ + 1, !.lastError = msg]

\* The catch block of refreshCacheEntry.
entryAfterFailure(entry, msg) ==
    [entry EXCEPT !.errorCount = @ + 1, !.lastError = msg]

\* A refreshCacheEntry that puts the entry back with this.cache.set(key, entry).
RefreshResolvedWritingBack(e) ==
    /\ refreshing[e] > 0
    /\ refreshing' = [refreshing EXCEPT ![e] = @ - 1]
    /\ cache' = [cache EXCEPT ![getCacheKey(heap[e].lat, heap[e].lon)] = e]
    /\ heap' = Collect([heap EXCEPT ![e] = entryAfterSuccess(@, FreshData(e, heap[e].fetchCount + 1), now)],
                       cache', refreshing')
    /\ ev' = Event("refreshed", heap[e].lat, heap[e].lon, e, NoRet, NoError)
    /\ UNCHANGED <<call, result, refreshIntervals, intervals, isShuttingDown, now, pending>>

\* refreshCacheEntry after its await, the merge having resolved: the fields
\* of the captured entry object are assigned.
RefreshResolved(e) ==
    /\ refreshing[e] > 0
    /\ refreshing' = [refreshing EXCEPT ![e] = @ - 1]
    /\ heap' = Collect([heap EXCEPT ![e] = entryAfterSuccess(@, FreshData(e, heap[e].fetchCount + 1), now)],
                       cache, refreshing')
    /\ ev' = Event("refreshed", heap[e].lat, heap[e].lon, e, NoRet, NoError)
    /\ UNCHANGED <<call, result, cache, refreshIntervals, intervals, isShuttingDown, now, pending>>

\* refreshCacheEntry after its await, the merge having rejected.
RefreshRejected(e, msg) ==
    /\ refreshing[e] > 0
    /\ refreshing' = [refreshing EXCEPT ![e] = @ - 1]
    /\ heap' = Collect([heap EXCEPT ![e] = entryAfterFailure(@, msg)], cache, refreshing')
    /\ ev' = Event("refreshFailed", heap[e].lat, heap[e].lon, e, NoRet, msg)
    /\ UNCHANGED <<call, result, cache, refreshIntervals, intervals, isShuttingDown, now, pending>>

(* ---------------------------- stop and shutdown ------------------------- *)

\* A stopCaching that deletes the handle from the Map without clearInterval.
armedAfterStopLeaking(key) == intervals

\* A stopCaching that clears every armed handle.
armedAfterStopClearingAll(key) == {}

\* stopCaching: clearInterval on the key's handle if there is one, and
\* delete the key from both Maps.
armedAfterStop(key) == {t \in intervals : t.id # refreshIntervals[key]}

StopCaching(lat, lon) ==
    LET key == getCacheKey(lat, lon)
    IN /\ intervals' = armedAfterStop(key)
       /\ refreshIntervals' = [refreshIntervals EXCEPT ![key] = Absent]
       /\ cache' = [cache EXCEPT ![key] = Absent]
       /\ heap' = Collect(heap, cache', refreshing)
       /\ ev' = Event("stop", lat, lon, cache[key], NoRet, NoError)
       /\ UNCHANGED <<call, result, isShuttingDown, now, pending, refreshing>>

\* A shutdown that clears the Maps without clearInterval.
armedAfterShutdownLeaking == intervals

\* shutdown: the flag is set, every handle of refreshIntervals is cleared,
\* both Maps are cleared.
armedAfterShutdown == {t \in intervals : \A k \in Keys : t.id # refreshIntervals[k]}

Shutdown ==
    /\ isShuttingDown' = TRUE
    /\ intervals' = armedAfterShutdown
    /\ refreshIntervals' = [k \in Keys |-> Absent]
    /\ cache' = [k \in Keys |-> Absent]
    /\ heap' = Collect(heap, cache', refreshing)
    /\ ev' = Event("shutdown", "", "", Absent, NoRet, NoError)
    /\ UNCHANGED <<call, result, now, pending, refreshing>>

(* ---------------------------- time -------------------------------------- *)

ClockAdvances ==
    /\ now < MaxTime
    /\ now' = now + 1
    /\ ev' = Event("clock", "", "", Absent, NoRet, NoError)
    /\ UNCHANGED <<call, result, cache, heap, refreshIntervals, intervals, isShuttingDown, pending, refreshing>>

(* ---------------------------- specification ----------------------------- *)

Next ==
    \/ \E c \in Coords : GetCachedData(c[1], c[2])
    \/ GetCacheStats
    \/ \E c \in Coords : GetWeather(c[1], c[2])
    \/ \E c \in Coords : StartCachingResolved(c[1], c[2])
    \/ \E c \in Coords, msg \in ErrorMessages : StartCachingRejected(c[1], c[2], msg)
    \/ \E t \in intervals : TimerFires(t)
    \/ \E e \in EntryIds : RefreshResolved(e)
    \/ \E e \in EntryIds, msg \in ErrorMessages : RefreshRejected(e, msg)
    \/ \E c \in Coords : StopCaching(c[1], c[2])
    \/ Shutdown
    \/ ClockAdvances

Spec == Init /\ [][Next]_vars

\* Scheduling.  An armed setInterval handle keeps firing, and a merge call
\* settles (both upstream requests carry a timeout), for every key.
TimerFiresFor(k) == \E t \in intervals : getCacheKey(t.lat, t.lon) = k /\ TimerFires(t)

RefreshSettlesFor(k) ==
    \E e \in EntryIds :
        /\ e[1] = k
        /\ (RefreshResolved(e) \/ \E msg \in ErrorMessages : RefreshRejected(e, msg))

Fairness == \A k \in Keys : WF_vars(TimerFiresFor(k)) /\ WF_vars(RefreshSettlesFor(k))

LiveSpec == Spec /\ Fairness


(* ======================================================================= *)
(* The merge engine (services/advancedWeatherService)                      *)
(* ======================================================================= *)

(* ---------------------------- JavaScript values ------------------------- *)

\* A number is held in units of 10^-FracDigits, as parseFloat gives it.
\* Arithmetic on these is exact; the code computes in IEEE doubles.
Unit == 10^FracDigits

\* The values a field that should hold a number can hold.
null == <<"null", 0>>
undefined == <<"undefined", 0>>       \* a property of an object that lacks it
NaN == <<"NaN", 0>>
Num(n) == <<"number", n>>
IsNum(x) == x[1] = "number"

\* A number as it is written in the feed or in the JSON body.
N(s) == Num(parseFloat(s))

\* ToNumber, as the relational and arithmetic operators apply it.
ToNumber(x) == IF x = null THEN Num(0) ELSE IF x = undefined THEN NaN ELSE x

\* x ? a : b and x || b take the first branch for a number other than 0.
Truthy(x) == IsNum(x) /\ x[2] # 0

\* x > n and x < n: false when x is not a number.
Gt(x, n) == IsNum(ToNumber(x)) /\ ToNumber(x)[2] > n
Lt(x, n) == IsNum(ToNumber(x)) /\ ToNumber(x)[2] < n

\* Math.round of the number num/den (den > 0): the nearest integer, a tie
\* going up.
RoundRatio(num, den) == ((2 * num + den * Unit) \div (2 * den * Unit)) * Unit

\* Math.round(x * 10) / 10 of the number whole + rest / Unit, 0 <= rest < Unit.
Round1(whole, rest) ==
    ((2 * whole + Unit \div 10 + (2 * rest) \div Unit) \div (2 * (Unit \div 10))) * (Unit \div 10)

\* Math.round(x).
MathRound(x) == IF IsNum(ToNumber(x)) THEN Num(RoundRatio(ToNumber(x)[2], 1)) ELSE NaN

(* ---------------------------- averageValues ----------------------------- *)

DefaultWeight == parseFloat("0.6")

\* value1 * weight1 + value2 * (1 - weight1), as the pair <<whole, rest>>
\* that stands for whole + rest / Unit with 0 <= rest < Unit.  The products
\* are taken on the integer and the fractional parts apart, which keeps
\* every intermediate value small.
weightedSum(v1, v2, w) ==
    LET high == (v1 \div Unit) * w + (v2 \div Unit) * (Unit - w)
        low == (v1 % Unit) * w + (v2 % Unit) * (Unit - w)
    IN <<high + low \div Unit, low % Unit>>

\* An averageValues that returns the weighted sum as it is.
averageValuesUnrounded(value1, value2, weight1) ==
    LET w == IF weight1 < 0 \/ weight1 > Unit THEN DefaultWeight ELSE weight1
    IN IF value1 = null /\ value2 = null THEN null
       ELSE IF value1 = null THEN value2
       ELSE IF value2 = null THEN value1
       ELSE IF ~IsNum(value1) \/ ~IsNum(value2) THEN NaN
       ELSE Num(weightedSum(value1[2], value2[2], w)[1])

\* An averageValues that takes no account of the weight it is given.
averageValuesFixedWeight(value1, value2, weight1) ==
    IF value1 = null /\ value2 = null THEN null
    ELSE IF value1 = null THEN value2
    ELSE IF value2 = null THEN value1
    ELSE IF ~IsNum(value1) \/ ~IsNum(value2) THEN NaN
    ELSE LET sum == weightedSum(value1[2], value2[2], DefaultWeight)
         IN Num(Round1(sum[1], sum[2]))

\* averageValues: null for two nulls, the other value when one is null, else
\* value1 * weight1 + value2 * (1 - weight1) rounded to one decimal.
averageValues(value1, value2, weight1) ==
    LET w == IF weight1 < 0 \/ weight1 > Unit THEN DefaultWeight ELSE weight1
    IN IF value1 = null /\ value2 = null THEN null
       ELSE IF value1 = null THEN value2
       ELSE IF value2 = null THEN value1
       ELSE IF ~IsNum(value1) \/ ~IsNum(value2) THEN NaN
       ELSE LET sum == weightedSum(value1[2], value2[2], w)
            IN Num(Round1(sum[1], sum[2]))

(* ---------------------------- calculateFeelsLike ------------------------ *)

\* FEELS_LIKE_THRESHOLDS, in degrees, per cent and km/h.
HUMIDEX_MIN_TEMP == 20
WIND_CHILL_MAX_TEMP == 10
HEAT_INDEX_MIN_HUMIDITY == 40
WIND_CHILL_MIN_SPEED == 10

\* temperature + (0.5 * (humidity - 40)) / 10, rounded.
heatIndex(temperature, humidity) ==
    Num(RoundRatio(20 * temperature[2] + humidity[2] - HEAT_INDEX_MIN_HUMIDITY * Unit, 20))

\* temperature - windSpeed * 0.2, rounded.
windChillCalc(temperature, windSpeed) ==
    Num(RoundRatio(5 * temperature[2] - windSpeed[2], 5))

\* A calculateFeelsLike whose temperature tests admit the thresholds
\* themselves (>= 20, <= 10).
calculateFeelsLikeInclusive(temperature, humidity, windSpeed, apparentTemperature, humidex, windChill) ==
    LET warm == Gt(temperature, HUMIDEX_MIN_TEMP * Unit) \/ temperature = Num(HUMIDEX_MIN_TEMP * Unit)
        cold == Lt(temperature, WIND_CHILL_MAX_TEMP * Unit) \/ temperature = Num(WIND_CHILL_MAX_TEMP * Unit)
    IN IF humidex # null /\ temperature # null /\ warm
       THEN MathRound(humidex)
       ELSE IF windChill # null /\ temperature # null /\ cold
       THEN MathRound(windChill)
       ELSE IF apparentTemperature # null
       THEN MathRound(apparentTemperature)
       ELSE IF temperature # null
       THEN IF warm /\ humidity # null /\ Gt(humidity, HEAT_INDEX_MIN_HUMIDITY * Unit)
            THEN heatIndex(temperature, humidity)
            ELSE IF cold /\ windSpeed # null /\ Gt(windSpeed, WIND_CHILL_MIN_SPEED * Unit)
            THEN windChillCalc(temperature, windSpeed)
            ELSE MathRound(temperature)
       ELSE null

\* calculateFeelsLike.
calculateFeelsLike(temperature, humidity, windSpeed, apparentTemperature, humidex, windChill) ==
    IF humidex # null /\ temperature # null /\ Gt(temperature, HUMIDEX_MIN_TEMP * Unit)
    THEN MathRound(humidex)
    ELSE IF windChill # null /\ temperature # null /\ Lt(temperature, WIND_CHILL_MAX_TEMP * Unit)
    THEN MathRound(windChill)
    ELSE IF apparentTemperature # null
    THEN MathRound(apparentTemperature)
    ELSE IF temperature # null
    THEN IF Gt(temperature, HUMIDEX_MIN_TEMP * Unit) /\ humidity # null
              /\ Gt(humidity, HEAT_INDEX_MIN_HUMIDITY * Unit)
         THEN heatIndex(temperature, humidity)
         ELSE IF Lt(temperature, WIND_CHILL_MAX_TEMP * Unit) /\ windSpeed # null
                   /\ Gt(windSpeed, WIND_CHILL_MIN_SPEED * Unit)
         THEN windChillCalc(temperature, windSpeed)
         ELSE MathRound(temperature)
    ELSE null

(* ---------------------------- upstream results ------------------------- *)

\* A section of a response body that may be missing, and one that is there.
Missing == <<>>
Present(x) == <<x>>

\* An outcome of Promise.allSettled.
Rejected == [status |-> "rejected", value |-> <<>>]
Fulfilled(v) == [status |-> "fulfilled", value |-> v]

\* What parseCurrentConditions gives: numbers parsed from the feed's text or
\* null; humidex and windChill are always null.
\* Pressure is in kPa.  One family of records varies the temperature, the
\* humidity and the wind speed, the other the pressure, the gust and the dew
\* point.
EnvCurrents ==
    [temperature : {null, N("0"), N("9.4"), N("18.8"), N("24.6")},
     humidity : {null, N("75")},
     windSpeed : {null, N("15")},
     windGust : {null},
     pressure : {N("101.3")},
     dewPoint : {N("12.4")},
     humidex : {null},
     windChill : {null},
     uvIndex : {null},
     cloudCover : {null}]
    \cup
    [temperature : {N("0")},
     humidity : {N("75")},
     windSpeed : {N("15")},
     windGust : {null, N("0"), N("35")},
     pressure : {null, N("101.3")},
     dewPoint : {null, N("0"), N("12.4")},
     humidex : {null},
     windChill : {null},
     uvIndex : {null},
     cloudCover : {null}]

\* What getWeatherData resolves with: one current record, the forecast
\* periods, the data age warning if any, and three arrays it leaves empty.
EnvResults ==
    [current : {<<c>> : c \in EnvCurrents},
     sevenDay : {<<>>, <<[period |-> "Tonight"]>>},
     alerts : {<<>>, <<[warning |-> "Data is 5 hours old"]>>},
     hourly : {<<>>},
     fourteenDay : {<<>>}]

\* The current section of an Open-Meteo body: each field that
\* getOpenMeteoData asks for a number or null, pressure_msl in hPa; it does
\* not ask for uv_index.  Two families of records, as above.
MeteoCurrents ==
    [temperature_2m : {null, N("17.0"), N("17.7"), N("25.5")},
     relative_humidity_2m : {null, N("74")},
     wind_speed_10m : {null, N("12.3")},
     apparent_temperature : {null, N("16.4")},
     wind_gusts_10m : {N("40.3")},
     pressure_msl : {N("1013.2")},
     cloud_cover : {N("75")},
     uv_index : {undefined}]
    \cup
    [temperature_2m : {N("17.0")},
     relative_humidity_2m : {N("74")},
     wind_speed_10m : {N("12.3")},
     apparent_temperature : {N("16.4")},
     wind_gusts_10m : {null, N("40.3")},
     pressure_msl : {null, N("1013.2")},
     cloud_cover : {null, N("0"), N("75")},
     uv_index : {undefined}]

\* The hourly section: one point per hour, at the times 0 and 1 of the clock.
HourlyPoint(t) ==
    [time |-> t, temperature_2m |-> N("16.6"), relative_humidity_2m |-> N("70"),
     wind_speed_10m |-> N("11.0"), apparent_temperature |-> null]

HourlySections == {Missing, Present(<<HourlyPoint(0), HourlyPoint(1)>>)}

DailySections ==
    {Missing,
     Present(<<[time |-> 0, temperature_2m_max |-> N("21.4"), apparent_temperature_max |-> null]>>)}

\* What getOpenMeteoData resolves with: a body with at least one of the
\* three sections (it throws for a body with none).
MeteoResults ==
    {r \in [current : {Missing} \cup {Present(c) : c \in MeteoCurrents},
            hourly : HourlySections,
            daily : DailySections] :
        ~(r.current = Missing /\ r.hourly = Missing /\ r.daily = Missing)}

(* ---------------------------- hourly and daily -------------------------- *)

HourlyWindow == 24

\* One element of processOpenMeteoHourly's array.
hourlyForecast(p) ==
    [time |-> p.time,
     temperature |-> IF p.temperature_2m # null THEN MathRound(p.temperature_2m) ELSE null,
     feelsLike |-> calculateFeelsLike(p.temperature_2m, p.relative_humidity_2m, p.wind_speed_10m,
                                      p.apparent_temperature, null, null),
     humidity |-> p.relative_humidity_2m,
     windSpeed |-> p.wind_speed_10m,
     source |-> "Open-Meteo"]

\* A processOpenMeteoHourly that takes its 24 points from the start of the
\* series, whatever the time.
processOpenMeteoHourlyFromStart(data, t) ==
    IF data.hourly = Missing THEN <<>>
    ELSE LET hourly == data.hourly[1]
             endIndex == Min({HourlyWindow, Len(hourly)})
         IN [i \in 1..endIndex |-> hourlyForecast(hourly[i])]

\* processOpenMeteoHourly at time t: nothing without an hourly section, else
\* up to 24 points from the first one not before t (from the first point
\* when all are before t).
processOpenMeteoHourly(data, t) ==
    IF data.hourly = Missing THEN <<>>
    ELSE LET hourly == data.hourly[1]
             later == {i \in 1..Len(hourly) : hourly[i].time >= t}
             startIndex == IF later = {} THEN 1 ELSE Min(later)
             endIndex == Min({startIndex + HourlyWindow - 1, Len(hourly)})
         IN [i \in 1..(endIndex - startIndex + 1) |-> hourlyForecast(hourly[startIndex + i - 1])]

\* One element of processOpenMeteoDaily's array.
dailyForecast(d) ==
    [date |-> d.time,
     temperatureMax |-> IF d.temperature_2m_max # null THEN MathRound(d.temperature_2m_max) ELSE null,
     feelsLikeMax |-> IF d.apparent_temperature_max # null THEN MathRound(d.apparent_temperature_max)
                      ELSE IF d.temperature_2m_max # null THEN MathRound(d.temperature_2m_max)
                      ELSE null,
     source |-> "Open-Meteo"]

\* processOpenMeteoDaily.
processOpenMeteoDaily(data) ==
    IF data.daily = Missing THEN <<>>
    ELSE [i \in 1..Len(data.daily[1]) |-> dailyForecast(data.daily[1][i])]

(* ---------------------------- current conditions ------------------------ *)

EnvironmentCanada == "Environment Canada"
OpenMeteo == "Open-Meteo"

\* The weight combineCurrent passes to averageValues.
RegionalWeight == parseFloat("0.7")

\* openMeteoData.current || {}: every property of {} is undefined.
EmptyObject ==
    [temperature_2m |-> undefined, relative_humidity_2m |-> undefined,
     wind_speed_10m |-> undefined, apparent_temperature |-> undefined,
     wind_gusts_10m |-> undefined, pressure_msl |-> undefined,
     cloud_cover |-> undefined, uv_index |-> undefined]

\* a || b: a when it is truthy, else b.
Or(a, b) == IF Truthy(a) THEN a ELSE b

\* x / 10 for a number that is a whole multiple of ten units.
Div10(x) == IF IsNum(x) THEN Num(x[2] \div 10) ELSE NaN

\* Math.round(pressure_msl / 10) / 10, the conversion from hPa to kPa.
hPaToKPa(pressure_msl) ==
    IF IsNum(ToNumber(pressure_msl))
    THEN Div10(Num(RoundRatio(ToNumber(pressure_msl)[2], 10)))
    ELSE NaN

\* combineCurrent: the record made of both sources.
combineCurrent(envCanadaData, openMeteoData) ==
    LET envCurrent == envCanadaData.current[1]
        openMeteoCurrent == IF openMeteoData.current = Missing THEN EmptyObject
                            ELSE openMeteoData.current[1]
        temperature == averageValues(envCurrent.temperature, openMeteoCurrent.temperature_2m,
                                     RegionalWeight)
        roundedTemperature == IF temperature # null THEN MathRound(temperature) ELSE null
        humidity == averageValues(envCurrent.humidity, openMeteoCurrent.relative_humidity_2m,
                                  RegionalWeight)
        windSpeed == averageValues(envCurrent.windSpeed, openMeteoCurrent.wind_speed_10m,
                                   RegionalWeight)
        feelsLike == calculateFeelsLike(roundedTemperature, humidity, windSpeed,
                                        openMeteoCurrent.apparent_temperature,
                                        envCurrent.humidex, envCurrent.windChill)
    IN <<[temperature |-> roundedTemperature,
          feelsLike |-> feelsLike,
          humidity |-> humidity,
          windSpeed |-> windSpeed,
          windGust |-> Or(envCurrent.windGust, openMeteoCurrent.wind_gusts_10m),
          pressure |-> Or(envCurrent.pressure,
                          IF Truthy(openMeteoCurrent.pressure_msl)
                          THEN hPaToKPa(openMeteoCurrent.pressure_msl) ELSE null),
          dewPoint |-> IF Truthy(envCurrent.dewPoint) THEN MathRound(envCurrent.dewPoint) ELSE null,
          uvIndex |-> Or(openMeteoCurrent.uv_index, null),
          cloudCover |-> Or(openMeteoCurrent.cloud_cover, null),
          sources |-> [primary |-> EnvironmentCanada, secondary |-> <<OpenMeteo>>]]>>

\* The record of the branch for Environment Canada alone.
adaptedCurrent(envData) ==
    LET envCurrent == envData.current[1]
    IN [temperature |-> envCurrent.temperature,
        feelsLike |-> IF Truthy(envCurrent.temperature) THEN MathRound(envCurrent.temperature)
                      ELSE null,
        humidity |-> envCurrent.humidity,
        windSpeed |-> envCurrent.windSpeed,
        windGust |-> envCurrent.windGust,
        pressure |-> envCurrent.pressure,
        dewPoint |-> envCurrent.dewPoint,
        uvIndex |-> envCurrent.uvIndex,
        cloudCover |-> envCurrent.cloudCover,
        sources |-> [primary |-> EnvironmentCanada, secondary |-> <<>>]]

\* The record of the branch for Open-Meteo alone; meteoData has a current
\* section.
fallbackCurrent(meteoData) ==
    LET current == meteoData.current[1]
        temperature == current.temperature_2m
        roundedTemperature == IF temperature # null THEN MathRound(temperature) ELSE null
        feelsLike == calculateFeelsLike(roundedTemperature, current.relative_humidity_2m,
                                        current.wind_speed_10m, current.apparent_temperature,
                                        null, null)
    IN [temperature |-> roundedTemperature,
        feelsLike |-> feelsLike,
        humidity |-> current.relative_humidity_2m,
        windSpeed |-> current.wind_speed_10m,
        windGust |-> current.wind_gusts_10m,
        pressure |-> hPaToKPa(current.pressure_msl),
        dewPoint |-> null,
        uvIndex |-> Or(current.uv_index, null),
        cloudCover |-> current.cloud_cover,
        sources |-> [primary |-> OpenMeteo, secondary |-> <<>>]]

(* ---------------------------- getAdvancedWeatherData -------------------- *)

\* How a call ends.
Returned(v) == [done |-> TRUE, threw |-> FALSE, error |-> NoError, value |-> v]
Threw(msg) == [done |-> TRUE, threw |-> TRUE, error |-> msg, value |-> <<>>]

AllSourcesFailed == "Failed to fetch data from all weather sources"
\* The TypeError of reading a property of meteoData.current when the body
\* has no current section.
NoCurrentSection == "Cannot read properties of undefined (reading 'temperature_2m')"
Unavailable(errorMessage) == "Advanced weather service unavailable: " \o errorMessage

\* envData && meteoData, envData, meteoData: null stands for a rejected fetch.
IsFulfilled(settled) == settled.status = "fulfilled"

\* result.sources once the current conditions are processed.
sourcesOfCurrent(envCanadaResult, openMeteoResult) ==
    IF IsFulfilled(envCanadaResult) /\ IsFulfilled(openMeteoResult)
    THEN [primary |-> EnvironmentCanada, secondary |-> <<OpenMeteo>>, confidence |-> parseFloat("0.95")]
    ELSE IF IsFulfilled(envCanadaResult)
    THEN [primary |-> EnvironmentCanada, secondary |-> <<>>, confidence |-> parseFloat("0.9")]
    ELSE IF IsFulfilled(openMeteoResult)
    THEN [primary |-> OpenMeteo, secondary |-> <<>>, confidence |-> parseFloat("0.8")]
    ELSE [primary |-> EnvironmentCanada, secondary |-> <<>>, confidence |-> parseFloat("0.85")]

\* result.sources once the hourly forecast is processed: Open-Meteo is
\* pushed to secondary unless it is there.
sourcesOfHourly(sources, openMeteoResult) ==
    IF IsFulfilled(openMeteoResult) /\ \A i \in 1..Len(sources.secondary) : sources.secondary[i] # OpenMeteo
    THEN [sources EXCEPT !.secondary = Append(@, OpenMeteo)]
    ELSE sources

\* result['7day'].
sevenDayOf(envCanadaResult) ==
    IF IsFulfilled(envCanadaResult) /\ Len(envCanadaResult.value.sevenDay) > 0
    THEN envCanadaResult.value.sevenDay
    ELSE <<>>

\* result.hourly.
hourlyOf(openMeteoResult, t) ==
    IF IsFulfilled(openMeteoResult) THEN processOpenMeteoHourly(openMeteoResult.value, t) ELSE <<>>

\* A 14-day series that falls back on what the regional result carries
\* under '14day' when it is there.
fourteenDayPreferringRegional(envCanadaResult, openMeteoResult) ==
    IF IsFulfilled(envCanadaResult) THEN envCanadaResult.value.fourteenDay
    ELSE IF IsFulfilled(openMeteoResult) THEN processOpenMeteoDaily(openMeteoResult.value)
    ELSE <<>>

\* result['14day'].
fourteenDayOf(envCanadaResult, openMeteoResult) ==
    IF IsFulfilled(openMeteoResult) THEN processOpenMeteoDaily(openMeteoResult.value) ELSE <<>>

\* result.alerts.
alertsOf(envCanadaResult) ==
    IF IsFulfilled(envCanadaResult) THEN envCanadaResult.value.alerts ELSE <<>>

\* getAdvancedWeatherData once both fetches have settled, at time t.
getAdvancedWeatherData(envCanadaResult, openMeteoResult, t) ==
    IF ~IsFulfilled(envCanadaResult) /\ ~IsFulfilled(openMeteoResult)
    THEN Threw(Unavailable(AllSourcesFailed))
    ELSE IF ~IsFulfilled(envCanadaResult) /\ openMeteoResult.value.current = Missing
    THEN Threw(Unavailable(NoCurrentSection))
    ELSE Returned(
        [current |-> IF IsFulfilled(envCanadaResult) /\ IsFulfilled(openMeteoResult)
                     THEN combineCurrent(envCanadaResult.value, openMeteoResult.value)
                     ELSE IF IsFulfilled(envCanadaResult)
                     THEN <<adaptedCurrent(envCanadaResult.value)>>
                     ELSE <<fallbackCurrent(openMeteoResult.value)>>,
         hourly |-> hourlyOf(openMeteoResult, t),
         sevenDay |-> sevenDayOf(envCanadaResult),
         fourteenDay |-> fourteenDayOf(envCanadaResult, openMeteoResult),
         alerts |-> alertsOf(envCanadaResult),
         sources |-> sourcesOfHourly(sourcesOfCurrent(envCanadaResult, openMeteoResult),
                                     openMeteoResult)])

(* ---------------------------- findCityCode ------------------------------ *)

\* CITY_CODE_MAP of the Environment Canada service: coordinates, as the two
\* parts of the key, to the code of the city's feed, in the order of the
\* object literal (the order Object.entries gives).
CITY_CODE_MAP ==
    <<[lat |-> "45.4", lon |-> "-75.7", code |-> "on-118"],
      [lat |-> "45.403", lon |-> "-75.687", code |-> "on-118"],
      [lat |-> "45.4", lon |-> "-75.69", code |-> "on-118"],
      [lat |-> "43.65", lon |-> "-79.38", code |-> "on-143"],
      [lat |-> "43.7", lon |-> "-79.4", code |-> "on-143"],
      [lat |-> "49.25", lon |-> "-123.1", code |-> "bc-74"],
      [lat |-> "49.3", lon |-> "-123.1", code |-> "bc-74"],
      [lat |-> "51.05", lon |-> "-114.07", code |-> "ab-52"],
      [lat |-> "51.0", lon |-> "-114.1", code |-> "ab-52"],
      [lat |-> "53.55", lon |-> "-113.5", code |-> "ab-50"],
      [lat |-> "53.5", lon |-> "-113.5", code |-> "ab-50"],
      [lat |-> "45.5", lon |-> "-73.58", code |-> "qc-147"],
      [lat |-> "45.5", lon |-> "-73.6", code |-> "qc-147"],
      [lat |-> "49.9", lon |-> "-97.1", code |-> "mb-38"],
      [lat |-> "44.6", lon |-> "-63.6", code |-> "ns-19"],
      [lat |-> "46.8", lon |-> "-71.2", code |-> "qc-133"]>>

\* The code findCityCode falls back on.
DefaultCityCode == "on-118"

\* The part of a string parseFloat reads: its longest prefix made of an
\* optional minus sign, digits, and at most one point.
numericPrefix(s) ==
    LET Char(i) == SubSeq(s, i, i)
        WellFormed(n) ==
            \A i \in 1..n :
                \/ Char(i) \in DOMAIN Digit
                \/ i = 1 /\ Char(i) = "-"
                \/ Char(i) = "." /\ \A j \in 1..(i - 1) : Char(j) # "."
        n == CHOOSE m \in 0..Len(s) :
                 WellFormed(m) /\ \A k \in (m + 1)..Len(s) : ~WellFormed(k)
    IN SubSeq(s, 1, n)

\* isNaN(parseFloat(s)): there is no digit to read.
isNaN(s) ==
    LET prefix == numericPrefix(s)
    IN \A i \in 1..Len(prefix) : SubSeq(prefix, i, i) \notin DOMAIN Digit

\* The decimal digits of a natural number.
DigitChar == [d \in 0..9 |-> CHOOSE c \in DOMAIN Digit : Digit[c] = d]

RECURSIVE natString(_)
natString(n) == IF n < 10 THEN DigitChar[n] ELSE natString(n \div 10) \o DigitChar[n % 10]

\* x.toFixed(1): the sign, and the magnitude rounded to the nearest tenth
\* (the larger of two equally near), written with one decimal.
toFixed1(x) ==
    LET magnitude == IF x < 0 THEN 0 - x ELSE x
        tenths == (magnitude + (Unit \div 10) \div 2) \div (Unit \div 10)
    IN (IF x < 0 THEN "-" ELSE "") \o natString(tenths \div 10) \o "." \o DigitChar[tenths % 10]

\* The coordinates findCityCode is called with that match no key of the
\* table, exactly or rounded.
RemotePoints == {<<"48.4", "-89.2">>, <<"44.2", "-76.5">>, <<"60.7", "-135.1">>, <<"47.6", "-52.7">>}

\* calculateHaversineDistance from each of these points to each entry of the
\* table in its order, as the function computes it, in metres (the function
\* returns kilometres as a double).
HaversineMetres ==
    [p \in RemotePoints |->
        CASE p = <<"48.4", "-89.2">> ->
               <<1076868, 1077673, 1077587, 922868, 918164, 2462630, 2461593, 1802918,
                 1805058, 1784791, 1783946, 1226276, 1224819, 597961, 1994529, 1358086>>
          [] p = <<"44.2", "-76.5">> ->
               <<147608, 148350, 147947, 238609, 238708, 3538515, 3537655, 2882325,
                 2884383, 2859622, 2859033, 271788, 270454, 1677659, 1024746, 504011>>
          [] p = <<"60.7", "-135.1">> ->
               <<4143573, 4144040, 4144116, 4084956, 4079773, 1480589, 1475603, 1681829,
                 1684536, 1516444, 1520036, 4250600, 4249517, 2638475, 4859912, 4276039>>
          [] p = <<"47.6", "-52.7">> ->
               <<1770705, 1769637, 1769955, 2109612, 2109092, 5004018, 5001578, 4334002,
                 4337861, 4210590, 4212170, 1608684, 1610184, 3217280, 903213, 1397184>>]

\* calculateHaversineDistance(latNum, lonNum, cityLat, cityLon) for the i-th
\* entry of the table.
calculateHaversineDistance(lat, lon, i) == HaversineMetres[<<lat, lon>>][i]

\* let minDistance = Infinity: above every distance.
Infinity == 2147483647

\* The loop of findCityCode from the i-th entry on: an entry strictly nearer
\* than the nearest so far replaces it.
RECURSIVE nearestFrom(_, _, _, _, _)
nearestFrom(lat, lon, i, minDistance, nearestCode) ==
    IF i > Len(CITY_CODE_MAP) THEN nearestCode
    ELSE LET distance == calculateHaversineDistance(lat, lon, i)
         IN IF distance < minDistance
            THEN nearestFrom(lat, lon, i + 1, distance, CITY_CODE_MAP[i].code)
            ELSE nearestFrom(lat, lon, i + 1, minDistance, nearestCode)

\* A loop that never records the distance it found: every entry is nearer
\* than Infinity, and the last one stays.
nearestCodeNotRecording(lat, lon) == CITY_CODE_MAP[Len(CITY_CODE_MAP)].code

\* The loop of findCityCode.
nearestCode(lat, lon) == nearestFrom(lat, lon, 1, Infinity, DefaultCityCode)

\* CITY_CODE_MAP[key]: the code under that key, or undefined.
codeOf(key) ==
    LET found == {i \in DOMAIN CITY_CODE_MAP : CITY_CODE_MAP[i].lat \o "," \o CITY_CODE_MAP[i].lon = key}
    IN IF found = {} THEN "undefined" ELSE CITY_CODE_MAP[CHOOSE i \in found : TRUE].code

\* findCityCode.
findCityCode(lat, lon) ==
    IF isNaN(lat) \/ isNaN(lon) THEN DefaultCityCode
    ELSE LET latNum == parseFloat(numericPrefix(lat))
             lonNum == parseFloat(numericPrefix(lon))
             exactKey == lat \o "," \o lon
             coordKey == toFixed1(latNum) \o "," \o toFixed1(lonNum)
         IN IF codeOf(exactKey) # "undefined" THEN codeOf(exactKey)
            ELSE IF codeOf(coordKey) # "undefined" THEN codeOf(coordKey)
            ELSE nearestCode(lat, lon)

(* ---------------------------- calls of the merge engine ----------------- *)

\* The arguments calculateFeelsLike is called with.
FeelsLikeCalls ==
    [temperature : {null, N("-5.5"), N("9.9"), N("10"), N("15"), N("20"), N("20.1"), N("25.5")},
     humidity : {null, N("40"), N("40.1"), N("80")},
     windSpeed : {null, N("10"), N("10.1"), N("30")},
     apparentTemperature : {null, N("16.4")},
     humidex : {null, N("28.6")},
     windChill : {null, N("-3.6")}]

\* The arguments averageValues is called with: values with up to two
\* decimals or null, and weights in and out of the range 0..1.
AverageValuesCalls ==
    [value1 : {null, N("0"), N("8.26"), N("-3.25")},
     value2 : {null, N("7.7"), N("9.04")},
     weight1 : {parseFloat("0"), parseFloat("0.6"), parseFloat("0.7"), parseFloat("1.0"),
                parseFloat("1.5"), parseFloat("-0.1")}]

\* An hourly section of len points, one per hour from the hour first on.
HourlySeries(first, len) == [i \in 1..len |-> HourlyPoint(first + i - 1)]

\* The bodies processOpenMeteoHourly is called with: no hourly section, an
\* empty one, and series shorter and longer than the window that begin
\* before, at and after the time of the call or lie wholly before it.
HourlyCalls ==
    [current : {Missing},
     hourly : {Missing} \cup
              {Present(HourlySeries(first, len)) :
                   first \in {-30, -4, 0, 1, 3}, len \in {0, 1, 3, 24, 26, 30}},
     daily : {Missing}]

\* The coordinates findCityCode is called with: keys of the table, other
\* spellings of them, points that round to a key, points far from every
\* key, and text that is not a number or only begins with one.
CityCalls ==
    {<<"45.4", "-75.7">>, <<"51.0", "-114.1">>, <<"43.65", "-79.38">>,
     <<"45.40", "-75.7">>, <<"51", "-114.1">>, <<"43.66", "-79.41">>, <<"51.04", "-114.06">>,
     <<"49.28", "-123.12">>, <<"45.4N", "-75.7W">>,
     <<"abc", "-75.7">>, <<"45.4", "">>, <<"-", ".">>}
    \cup RemotePoints

\* The outcomes of the two fetches getAdvancedWeatherData waits for.
MergeCalls ==
    [env : {Rejected} \cup {Fulfilled(v) : v \in EnvResults},
     meteo : {Rejected} \cup {Fulfilled(v) : v \in MeteoResults}]

\* A function of the merge engine is about to be called; the cache is as
\* constructed.
CallInit ==
    /\ cache = [k \in Keys |-> Absent]
    /\ heap = [e \in EntryIds |-> Free]
    /\ refreshIntervals = [k \in Keys |-> Absent]
    /\ intervals = {}
    /\ isShuttingDown = FALSE
    /\ now \in 0..MaxTime
    /\ pending = [c \in Coords |-> 0]
    /\ refreshing = [e \in EntryIds |-> 0]
    /\ ev = Event("init", "", "", Absent, NoRet, NoError)
    /\ result = NotReturned
    /\ \/ \E a \in MergeCalls : call = [fn |-> "getAdvancedWeatherData", args |-> a]
       \/ \E a \in FeelsLikeCalls : call = [fn |-> "calculateFeelsLike", args |-> a]
       \/ \E a \in AverageValuesCalls : call = [fn |-> "averageValues", args |-> a]
       \/ \E a \in HourlyCalls : call = [fn |-> "processOpenMeteoHourly", args |-> a]
       \/ \E a \in CityCalls : call = [fn |-> "findCityCode", args |-> a]

GetAdvancedWeatherData ==
    /\ call.fn = "getAdvancedWeatherData"
    /\ ~result.done
    /\ result' = getAdvancedWeatherData(call.args.env, call.args.meteo, now)
    /\ UNCHANGED <<cache, heap, refreshIntervals, intervals, isShuttingDown, now, pending,
                   refreshing, ev, call>>

CalculateFeelsLike ==
    /\ call.fn = "calculateFeelsLike"
    /\ ~result.done
    /\ result' = Returned(calculateFeelsLike(call.args.temperature, call.args.humidity,
                                             call.args.windSpeed, call.args.apparentTemperature,
                                             call.args.humidex, call.args.windChill))
    /\ UNCHANGED <<cache, heap, refreshIntervals, intervals, isShuttingDown, now, pending,
                   refreshing, ev, call>>

AverageValues ==
    /\ call.fn = "averageValues"
    /\ ~result.done
    /\ result' = Returned(averageValues(call.args.value1, call.args.value2, call.args.weight1))
    /\ UNCHANGED <<cache, heap, refreshIntervals, intervals, isShuttingDown, now, pending,
                   refreshing, ev, call>>

ProcessOpenMeteoHourly ==
    /\ call.fn = "processOpenMeteoHourly"
    /\ ~result.done
    /\ result' = Returned(processOpenMeteoHourly(call.args, now))
    /\ UNCHANGED <<cache, heap, refreshIntervals, intervals, isShuttingDown, now, pending,
                   refreshing, ev, call>>

FindCityCode ==
    /\ call.fn = "findCityCode"
    /\ ~result.done
    /\ result' = Returned(findCityCode(call.args[1], call.args[2]))
    /\ UNCHANGED <<cache, heap, refreshIntervals, intervals, isShuttingDown, now, pending,
                   refreshing, ev, call>>

CallNext ==
    \/ GetAdvancedWeatherData
    \/ CalculateFeelsLike
    \/ AverageValues
    \/ ProcessOpenMeteoHourly
    \/ FindCityCode

CallSpec == CallInit /\ [][CallNext]_vars


(* ======================================================================= *)
(* Properties                                                              *)
(* ======================================================================= *)

\* The last handler run belonged to a call for coordinates c.
EvAt(c) == ev.lat = c[1] /\ ev.lon = c[2]
EvKey == getCacheKey(ev.lat, ev.lon)
RefreshDone == {"refreshed", "refreshFailed"}

\* C1: when a background refresh of a cached key fails, the entry keeps its
\* data (so getCachedData returns the same current conditions), its
\* timestamp and its fetchCount; errorCount goes up by exactly one and
\* lastError is the message of the failure.
C1_FailedRefreshKeepsData ==
    [][\A c \in Coords :
          LET key == getCacheKey(c[1], c[2])
              e == cache[key]
          IN (ev'.op = "refreshFailed" /\ EvAt(c)' /\ ev'.entry = e) =>
                /\ cache'[key] = e
                /\ heap'[e].data = heap[e].data
                /\ getCachedData(c[1], c[2])'.nested = getCachedData(c[1], c[2]).nested
                /\ heap'[e].timestamp = heap[e].timestamp
                /\ heap'[e].fetchCount = heap[e].fetchCount
                /\ heap'[e].errorCount = heap[e].errorCount + 1
                /\ heap'[e].lastError = ev'.error
                /\ ev'.error \in ErrorMessages]_vars

\* A refresh of a cached key has just failed, on an entry refreshed before.
C1_Witness ==
    /\ ev.op = "refreshFailed"
    /\ cache[EvKey] = ev.entry
    /\ heap[ev.entry].fetchCount > 1

\* C2: a read of a key that has an entry is answered from the cache without
\* a merge call, and a read never starts a merge call for a key while the
\* merge call of an earlier read of that key is still in flight (two reads
\* with no refresh period between them cost one merge call).
C2_OneMergeForTwoReads ==
    [][\A c \in Coords :
          /\ (ev'.op = "hit" /\ EvAt(c)') =>
                /\ pending' = pending /\ refreshing' = refreshing
                /\ ev'.ret.nested = heap[cache[getCacheKey(c[1], c[2])]].data
          /\ (EvAt(c)' /\ pending'[c] > pending[c]) =>
                /\ cache[getCacheKey(c[1], c[2])] = Absent
                /\ pending[c] = 0]_vars

\* C3: no key ever has two refreshCacheEntry calls in flight at once.
C3_AtMostOneRefreshInFlight ==
    \A k \in Keys :
        SumOver([e \in EntryIds |-> IF e[1] = k THEN refreshing[e] ELSE 0], EntryIds) <= 1

\* C4: a refresh that completes after its key was stopped or the cache shut
\* down changes nothing in the cache: the Map is as before (an absent key
\* stays absent), every entry in it keeps all its fields, and so do the
\* handles.
C4_CancelledRefreshWritesNothing ==
    [][\A c \in Coords :
          (ev'.op \in RefreshDone /\ EvAt(c)' /\ cache[getCacheKey(c[1], c[2])] # ev'.entry) =>
             /\ cache' = cache
             /\ \A k \in Keys : cache[k] # Absent => heap'[cache[k]] = heap[cache[k]]
             /\ refreshIntervals' = refreshIntervals
             /\ intervals' = intervals]_vars

\* A refresh has just completed whose key is no longer in the cache.
C4_Witness ==
    /\ ev.op \in RefreshDone
    /\ cache[EvKey] = Absent

\* C5: when shutdown returns no handle is armed and both Maps are empty, and
\* a tick that fires once shutdown has begun starts no merge call and writes
\* nothing.
C5_ShutdownClearsAndSilencesTicks ==
    [][/\ ev'.op = "shutdown" =>
            /\ intervals' = {}
            /\ \A k \in Keys : refreshIntervals'[k] = Absent /\ cache'[k] = Absent
            /\ isShuttingDown'
       /\ (isShuttingDown /\ ev'.op \in {"tick", "tickNoEntry", "tickIgnored"}) =>
            /\ ev'.op = "tickIgnored"
            /\ UNCHANGED <<cache, heap, refreshIntervals, intervals, pending, refreshing>>]_vars

\* A tick has fired after shutdown and was ignored.
C5_Witness ==
    /\ ev.op = "tickIgnored"
    /\ isShuttingDown

\* C6: when a background refresh of a cached key succeeds, the entry's data
\* is the fresh merge result (a new object), its timestamp is the time of
\* completion, fetchCount is one higher, lastError is cleared and errorCount
\* is as before.
C6_SuccessfulRefreshReplacesData ==
    [][\A c \in Coords :
          LET key == getCacheKey(c[1], c[2])
              e == cache[key]
          IN (ev'.op = "refreshed" /\ EvAt(c)' /\ ev'.entry = e) =>
                /\ cache'[key] = e
                /\ heap'[e].data = FreshData(e, heap[e].fetchCount + 1)
                /\ heap'[e].data # heap[e].data
                /\ heap'[e].timestamp = now'
                /\ heap'[e].fetchCount = heap[e].fetchCount + 1
                /\ heap'[e].lastError = NoError
                /\ heap'[e].errorCount = heap[e].errorCount]_vars

\* A refresh of a cached key has just succeeded after an earlier failure,
\* later than the entry was made.
C6_Witness ==
    /\ ev.op = "refreshed"
    /\ cache[EvKey] = ev.entry
    /\ heap[ev.entry].errorCount > 0
    /\ heap[ev.entry].timestamp > 0

\* C7: an entry and a handle come into being only in the startCaching run
\* that follows a resolved merge; when the first merge rejects, the caller
\* gets the Error and the entries and the handles are as before.
C7_EntryOnlyAfterSuccessfulMerge ==
    [][/\ ev'.op = "seedFailed" =>
            /\ ev'.error \in ErrorMessages
            /\ ev'.ret = NoRet
            /\ UNCHANGED <<cache, heap, refreshIntervals, intervals>>
       /\ \A k \in Keys :
            \/ cache'[k] = cache[k] /\ refreshIntervals'[k] = refreshIntervals[k]
            \/ cache'[k] = Absent /\ refreshIntervals'[k] = Absent
            \/ ev'.op = "seed"
       /\ (intervals' \ intervals # {}) => ev'.op = "seed"]_vars

\* The first merge of a key has just rejected, some other key being cached.
C7_Witness ==
    /\ ev.op = "seedFailed"
    /\ cache[EvKey] = Absent
    /\ \E k \in Keys : cache[k] # Absent

\* C8: stopCaching leaves its key without entry and without armed handle,
\* and every other key as it was; for a key that has neither it changes
\* nothing and raises nothing.
C8_StopCachingRemovesAndIsIdempotent ==
    [][\A c \in Coords :
          LET key == getCacheKey(c[1], c[2])
          IN (ev'.op = "stop" /\ EvAt(c)') =>
                /\ cache'[key] = Absent
                /\ refreshIntervals'[key] = Absent
                /\ \A t \in intervals' : getCacheKey(t.lat, t.lon) # key
                /\ ev'.error = NoError
                /\ \A k \in Keys \ {key} :
                      /\ cache'[k] = cache[k]
                      /\ refreshIntervals'[k] = refreshIntervals[k]
                      /\ cache[k] # Absent => heap'[cache[k]] = heap[cache[k]]
                      /\ \A t \in intervals : getCacheKey(t.lat, t.lon) = k => t \in intervals'
                /\ (cache[key] = Absent /\ refreshIntervals[key] = Absent) =>
                      UNCHANGED <<cache, heap, refreshIntervals, intervals, isShuttingDown,
                                  pending, refreshing>>]_vars

\* stopCaching has just run for a key already stopped, another key being cached.
C8_Witness ==
    /\ ev.op = "stop"
    /\ ev.entry = Absent
    /\ \E k \in Keys : cache[k] # Absent /\ refreshIntervals[k] # Absent

\* The bounds of the model keep a tick of key k from starting a refresh:
\* MaxWork merge calls are counted, or calls for other entries fill
\* MaxRefreshing.
TickCapped(k) ==
    \/ Work >= MaxWork
    \/ SumOver(refreshing, EntryIds) >= MaxRefreshing /\ refreshing[cache[k]] = 0

\* C9: a key that stays cached, with the cache not shut down, has refresh
\* attempts completing on its entry again and again (each one raises
\* fetchCount + errorCount), whether or not any read is issued; this is
\* stated up to the bounds of the model.
C9_LiveKeyKeepsRefreshing ==
    \A c \in Coords :
        []<>(\/ cache[getCacheKey(c[1], c[2])] = Absent
             \/ isShuttingDown
             \/ TickCapped(getCacheKey(c[1], c[2]))
             \/ ev.op \in RefreshDone /\ EvAt(c) /\ ev.entry = cache[getCacheKey(c[1], c[2])])

\* A second refresh attempt has just completed on a cached key while no
\* read is waiting.
C9_Witness ==
    /\ ev.op \in RefreshDone
    /\ ev.entry = cache[EvKey]
    /\ heap[ev.entry].fetchCount + heap[ev.entry].errorCount >= 3
    /\ \A c \in Coords : pending[c] = 0
    /\ ~isShuttingDown

\* C10: what getCachedData and startCaching hand to the caller shares no
\* object with a live entry: neither the returned object nor the objects
\* nested in it are the data of an entry in the cache.
C10_ReturnedValuesAreCopies ==
    \A k \in Keys :
        cache[k] # Absent => heap[cache[k]].data \notin {ev.ret.top, ev.ret.nested}

\* The metadata.cache object getCachedData builds from an entry at time t.
CacheMetadata(entry, t) ==
    [cached |-> TRUE, timestamp |-> entry.timestamp, age |-> t - entry.timestamp,
     fetchCount |-> entry.fetchCount, errorCount |-> entry.errorCount,
     lastError |-> entry.lastError]

\* C11: a call of getCachedData starts no merge call and leaves the Map, the
\* handles, the entries, the flag and the calls in flight as they were; for
\* a key with no entry it returns null, for a key with an entry it returns
\* the entry's data with metadata.cache = {cached: true, timestamp, age,
\* fetchCount, errorCount, lastError} of that entry.
C11_GetCachedDataIsPureLookup ==
    [][\A c \in Coords :
          LET e == cache[getCacheKey(c[1], c[2])]
          IN (ev'.op = "read" /\ EvAt(c)') =>
                /\ UNCHANGED <<cache, heap, refreshIntervals, intervals, isShuttingDown,
                               pending, refreshing>>
                /\ e = Absent => ev'.ret = NoRet
                /\ e # Absent =>
                      /\ ev'.ret.nested = heap[e].data
                      /\ ev'.ret.cache = CacheMetadata(heap[e], now)]_vars

\* getCachedData has just returned for a cached key whose last refresh
\* failed, some time after its data was stored.
C11_Witness ==
    /\ ev.op = "read"
    /\ ev.entry # Absent
    /\ ev.ret.cache.lastError # NoError
    /\ ev.ret.cache.age > 0
    /\ ev.ret.cache.errorCount > 0

\* What a read sees of an entry.
Snapshot(entry) ==
    [data |-> entry.data, timestamp |-> entry.timestamp, fetchCount |-> entry.fetchCount,
     lastError |-> entry.lastError]

\* C12: a read returns the fields of the entry as they stand between two
\* handler runs, and a handler run that changes what a read sees of a cached
\* entry is one whole refresh: a successful one replaces data, timestamp,
\* fetchCount and lastError together, a failed one changes lastError alone.
\* So a read around a refresh sees the state before it or the state after
\* it, never new data with an old timestamp, fetchCount or lastError.
C12_ReadSeesWholeRefresh ==
    [][\A c \in Coords :
          LET key == getCacheKey(c[1], c[2])
              e == cache[key]
          IN /\ (ev'.op = "read" /\ EvAt(c)' /\ e # Absent) =>
                   /\ Snapshot(heap'[e]) = Snapshot(heap[e])
                   /\ ev'.ret.nested = heap[e].data
                   /\ ev'.ret.cache.timestamp = heap[e].timestamp
                   /\ ev'.ret.cache.fetchCount = heap[e].fetchCount
                   /\ ev'.ret.cache.lastError = heap[e].lastError
             /\ (e # Absent /\ cache'[key] = e /\ Snapshot(heap'[e]) # Snapshot(heap[e])) =>
                   \/ /\ ev'.op = "refreshed" /\ ev'.entry = e
                      /\ heap'[e].data # heap[e].data
                      /\ heap'[e].timestamp = now'
                      /\ heap'[e].fetchCount = heap[e].fetchCount + 1
                      /\ heap'[e].lastError = NoError
                   \/ /\ ev'.op = "refreshFailed" /\ ev'.entry = e
                      /\ heap'[e].data = heap[e].data
                      /\ heap'[e].timestamp = heap[e].timestamp
                      /\ heap'[e].fetchCount = heap[e].fetchCount
                      /\ heap'[e].lastError = ev'.error]_vars

\* A read has just returned for a key whose entry has been refreshed once
\* and has another refresh in flight.
C12_Witness ==
    /\ ev.op = "read"
    /\ ev.entry # Absent
    /\ cache[EvKey] = ev.entry
    /\ refreshing[ev.entry] > 0
    /\ ev.ret.cache.fetchCount > 1

\* Two coordinate pairs denote the same point.
SamePoint(c, d) == parseFloat(c[1]) = parseFloat(d[1]) /\ parseFloat(c[2]) = parseFloat(d[2])

\* C13: requests whose coordinates are the same numbers, however spelled,
\* use one cache key: there is never more than one entry, nor more than
\* one armed handle, for a point.
C13_OneEntryPerPoint ==
    \A c, d \in Coords :
        SamePoint(c, d) =>
            /\ (cache[getCacheKey(c[1], c[2])] # Absent /\ cache[getCacheKey(d[1], d[2])] # Absent)
                    => cache[getCacheKey(c[1], c[2])] = cache[getCacheKey(d[1], d[2])]
            /\ \A t, u \in intervals :
                    (<<t.lat, t.lon>> = c /\ <<u.lat, u.lon>> = d) => t = u

\* The same point is cached twice, under two spellings, with two handles armed.
C13_TwoEntriesForOnePoint ==
    \E c, d \in Coords :
        /\ c # d /\ SamePoint(c, d)
        /\ cache[getCacheKey(c[1], c[2])] # Absent
        /\ cache[getCacheKey(d[1], d[2])] # Absent
        /\ cache[getCacheKey(c[1], c[2])] # cache[getCacheKey(d[1], d[2])]
        /\ \E t, u \in intervals : t # u /\ <<t.lat, t.lon>> = c /\ <<u.lat, u.lon>> = d


(* ---------------------------- merge engine ------------------------------ *)

\* The multiple of step nearest to the number num/den (den > 0), the upper
\* one of two equally near: the rounding stated by what it means.
Nearest(num, den, step) ==
    LET q == num \div (den * step)
    IN step * (CHOOSE n \in (q - 1)..(q + 1) :
                   /\ (2 * n - 1) * step * den <= 2 * num
                   /\ 2 * num < (2 * n + 1) * step * den)

Tenth == Unit \div 10

\* A call of getAdvancedWeatherData has ended; it has returned a result.
MergeDone == call.fn = "getAdvancedWeatherData" /\ result.done
MergeOk == MergeDone /\ ~result.threw
\* The regional fetch, the global fetch of that call succeeded.
EnvOk == IsFulfilled(call.args.env)
MeteoOk == IsFulfilled(call.args.meteo)
\* The one current-conditions record of the result.
Cur == result.value.current[1]
\* The elements of an array.
Elements(a) == {a[i] : i \in DOMAIN a}

\* C14: the merge throws exactly when both fetches failed; when exactly one
\* failed it returns a result with exactly one current-conditions record.
C14_MergeFailsOnlyWhenBothFail ==
    MergeDone =>
        /\ result.threw <=> (~EnvOk /\ ~MeteoOk)
        /\ (EnvOk # MeteoOk) => (~result.threw /\ Len(result.value.current) = 1)

\* The regional fetch failed, the global one succeeded, and the merge threw.
C14_ThrewWithOneSource ==
    /\ MergeDone
    /\ ~EnvOk /\ MeteoOk
    /\ result.threw

\* C15: result.sources follows from which fetches succeeded: both give
\* primary Environment Canada, Open-Meteo in secondary and confidence 0.95;
\* Environment Canada alone gives primary Environment Canada and 0.90;
\* Open-Meteo alone gives primary Open-Meteo and 0.80 with Open-Meteo not in
\* secondary.
C15_SourcesDescriptor ==
    MergeOk =>
        LET sources == result.value.sources
        IN /\ (EnvOk /\ MeteoOk) =>
                /\ sources.primary = EnvironmentCanada
                /\ OpenMeteo \in Elements(sources.secondary)
                /\ sources.confidence = parseFloat("0.95")
           /\ (EnvOk /\ ~MeteoOk) =>
                /\ sources.primary = EnvironmentCanada
                /\ sources.confidence = parseFloat("0.90")
           /\ (~EnvOk /\ MeteoOk) =>
                /\ sources.primary = OpenMeteo
                /\ sources.confidence = parseFloat("0.80")
                /\ OpenMeteo \notin Elements(sources.secondary)

\* A merge of Open-Meteo alone has returned with Open-Meteo both primary and
\* in secondary.
C15_GlobalBothPrimaryAndSecondary ==
    /\ MergeOk
    /\ ~EnvOk /\ MeteoOk
    /\ result.value.sources.primary = OpenMeteo
    /\ OpenMeteo \in Elements(result.value.sources.secondary)

\* C16: hourly and 14day are made of the global result only (every hourly
\* point is one of its hours, the 14day series has one element per day of
\* it, in order) and are empty without it; 7day and alerts are the regional
\* result's own arrays and are empty without it.  A merge of the regional
\* result alone has one current record, no hourly and no 14day element.
C16_SeriesArePassThroughs ==
    MergeOk =>
        LET v == result.value
            meteo == call.args.meteo.value
            env == call.args.env.value
        IN /\ ~MeteoOk => (v.hourly = <<>> /\ v.fourteenDay = <<>>)
           /\ MeteoOk =>
                /\ meteo.hourly = Missing => v.hourly = <<>>
                /\ \A h \in Elements(v.hourly) :
                      /\ h.source = OpenMeteo
                      /\ \E p \in Elements(meteo.hourly[1]) : p.time = h.time
                /\ meteo.daily = Missing => v.fourteenDay = <<>>
                /\ meteo.daily # Missing =>
                      /\ Len(v.fourteenDay) = Len(meteo.daily[1])
                      /\ \A i \in DOMAIN v.fourteenDay :
                            /\ v.fourteenDay[i].source = OpenMeteo
                            /\ v.fourteenDay[i].date = meteo.daily[1][i].time
           /\ ~EnvOk => (v.sevenDay = <<>> /\ v.alerts = <<>>)
           /\ EnvOk => (v.sevenDay = env.sevenDay /\ v.alerts = env.alerts)
           /\ (EnvOk /\ ~MeteoOk) =>
                (Len(v.current) = 1 /\ v.hourly = <<>> /\ v.fourteenDay = <<>>)

\* A merge of both sources has returned with all four series non-empty.
C16_Witness ==
    /\ MergeOk
    /\ EnvOk /\ MeteoOk
    /\ result.value.hourly # <<>>
    /\ result.value.fourteenDay # <<>>
    /\ result.value.sevenDay # <<>>
    /\ result.value.alerts # <<>>

\* C17: calculateFeelsLike returns, in this order of precedence: the rounded
\* humidex when there is one and the temperature is above 20; the rounded
\* wind chill when there is one and the temperature is below 10; the rounded
\* apparent temperature when there is one; round(t + 0.5 * (humidity - 40) / 10)
\* when t is above 20 and the humidity above 40; round(t - 0.2 * windSpeed)
\* when t is below 10 and the wind speed above 10; round(t) when there is a
\* temperature; else null.  At exactly 20 and exactly 10 the humidex and the
\* wind chill are not used.
C17_FeelsLikePrecedence ==
    (call.fn = "calculateFeelsLike" /\ result.done) =>
        LET t == call.args.temperature
            h == call.args.humidity
            w == call.args.windSpeed
            apparent == call.args.apparentTemperature
            humidex == call.args.humidex
            windChill == call.args.windChill
            expected ==
                IF humidex # null /\ t # null /\ t[2] > 20 * Unit
                    THEN Num(Nearest(humidex[2], 1, Unit))
                ELSE IF windChill # null /\ t # null /\ t[2] < 10 * Unit
                    THEN Num(Nearest(windChill[2], 1, Unit))
                ELSE IF apparent # null
                    THEN Num(Nearest(apparent[2], 1, Unit))
                ELSE IF t # null /\ t[2] > 20 * Unit /\ h # null /\ h[2] > 40 * Unit
                    THEN Num(Nearest(20 * t[2] + h[2] - 40 * Unit, 20, Unit))
                ELSE IF t # null /\ t[2] < 10 * Unit /\ w # null /\ w[2] > 10 * Unit
                    THEN Num(Nearest(5 * t[2] - w[2], 5, Unit))
                ELSE IF t # null
                    THEN Num(Nearest(t[2], 1, Unit))
                ELSE null
        IN /\ ~result.threw
           /\ result.value = expected
           /\ (t = Num(20 * Unit) /\ humidex # null /\ apparent # null) =>
                 result.value = Num(Nearest(apparent[2], 1, Unit))
           /\ (t = Num(10 * Unit) /\ windChill # null /\ apparent # null) =>
                 result.value = Num(Nearest(apparent[2], 1, Unit))

\* calculateFeelsLike has returned for a temperature of exactly 20 with a
\* humidex, a wind chill and an apparent temperature all supplied.
C17_Witness ==
    /\ call.fn = "calculateFeelsLike"
    /\ result.done
    /\ call.args.temperature = N("20")
    /\ call.args.humidex # null
    /\ call.args.windChill # null
    /\ call.args.apparentTemperature = N("16.4")
    /\ result.value = N("16")

\* What the sources of a merge supplied for the apparent temperature, the
\* humidex and the wind chill: null when the source or the value is not there.
SuppliedApparent ==
    IF MeteoOk /\ call.args.meteo.value.current # Missing
    THEN call.args.meteo.value.current[1].apparent_temperature
    ELSE null
SuppliedHumidex == IF EnvOk THEN call.args.env.value.current[1].humidex ELSE null
SuppliedWindChill == IF EnvOk THEN call.args.env.value.current[1].windChill ELSE null

\* C18: the feelsLike of the current record of every returned merge is
\* calculateFeelsLike of that record's temperature, humidity and wind speed
\* and of the apparent temperature, humidex and wind chill the sources
\* supplied; it is null only when the temperature is null.
C18_FeelsLikeIsTheAlgorithm ==
    MergeOk =>
        /\ Cur.feelsLike = calculateFeelsLike(Cur.temperature, Cur.humidity, Cur.windSpeed,
                                              SuppliedApparent, SuppliedHumidex, SuppliedWindChill)
        /\ Cur.feelsLike = null => Cur.temperature = null

\* A merge of Environment Canada alone has returned a temperature of 0 with
\* a null feelsLike.
C18_NullFeelsLikeAtZero ==
    /\ MergeOk
    /\ EnvOk /\ ~MeteoOk
    /\ Cur.temperature = N("0")
    /\ Cur.feelsLike = null

\* C19: in the current record of every returned merge, temperature and
\* feelsLike are whole numbers unless null, and humidity and wind speed are
\* multiples of 0.1 unless null.
C19_PublishedValuesAreRounded ==
    MergeOk =>
        /\ \A x \in {Cur.temperature, Cur.feelsLike} : x # null => (IsNum(x) /\ x[2] % Unit = 0)
        /\ \A x \in {Cur.humidity, Cur.windSpeed} : x # null => (IsNum(x) /\ x[2] % Tenth = 0)

\* A merge of Environment Canada alone has returned a temperature that is
\* not a whole number.
C19_FractionalTemperature ==
    /\ MergeOk
    /\ EnvOk /\ ~MeteoOk
    /\ IsNum(Cur.temperature)
    /\ Cur.temperature[2] % Unit # 0

\* C20: when both sources are there and both report a temperature, the
\* published temperature is 0.7 * regional + 0.3 * global rounded to one
\* decimal and then to a whole number; humidity and wind speed, when both
\* report them, are the same weighted average rounded to one decimal.
C20_WeightedAverageTwiceRounded ==
    (MergeOk /\ EnvOk /\ MeteoOk /\ call.args.meteo.value.current # Missing) =>
        LET regional == call.args.env.value.current[1]
            global == call.args.meteo.value.current[1]
            Weighted(r, g) == Nearest(7 * r[2] + 3 * g[2], 10, Tenth)
        IN /\ (IsNum(regional.temperature) /\ IsNum(global.temperature_2m)) =>
                Cur.temperature =
                    Num(Nearest(Weighted(regional.temperature, global.temperature_2m), 1, Unit))
           /\ (IsNum(regional.humidity) /\ IsNum(global.relative_humidity_2m)) =>
                Cur.humidity = Num(Weighted(regional.humidity, global.relative_humidity_2m))
           /\ (IsNum(regional.windSpeed) /\ IsNum(global.wind_speed_10m)) =>
                Cur.windSpeed = Num(Weighted(regional.windSpeed, global.wind_speed_10m))

\* A merge of a regional 18.8 and a global 17.0 has returned 18, with the
\* humidity and the wind speed averaged as well.
C20_Witness ==
    /\ MergeOk
    /\ EnvOk /\ MeteoOk
    /\ call.args.meteo.value.current # Missing
    /\ call.args.env.value.current[1].temperature = N("18.8")
    /\ call.args.meteo.value.current[1].temperature_2m = N("17.0")
    /\ Cur.temperature = N("18")
    /\ Cur.humidity = N("74.7")
    /\ Cur.windSpeed = N("14.2")

GlobalCurrent == call.args.meteo.value.current[1]
RegionalCurrent == call.args.env.value.current[1]

\* The published pressure is taken from the global source: the regional
\* source is there without a pressure and the global one reports one, or the
\* global source is alone.
PressureFromGlobal ==
    /\ MergeOk /\ MeteoOk
    /\ call.args.meteo.value.current # Missing
    /\ IsNum(GlobalCurrent.pressure_msl)
    /\ EnvOk => RegionalCurrent.pressure = null

\* C22: a published pressure taken from the global source is the sea-level
\* pressure in hPa divided by 10 and rounded to one decimal, in kPa
\* (1013.2 hPa is published as 101.3).
C22_GlobalPressureInKPa ==
    PressureFromGlobal =>
        Cur.pressure = Num(Nearest(GlobalCurrent.pressure_msl[2], 10, Tenth))

\* A sea-level pressure of 1013.2 hPa taken from the global source has been
\* published as 10.1.
C22_TenthOfThePressure ==
    /\ PressureFromGlobal
    /\ GlobalCurrent.pressure_msl = N("1013.2")
    /\ Cur.pressure = N("10.1")

\* The global current section as combineCurrent reads it.
GlobalOrEmpty ==
    IF call.args.meteo.value.current = Missing THEN EmptyObject ELSE GlobalCurrent

\* C28: in the current record of a returned merge a field whose source
\* reports 0 is published as 0: the regional wind gust, dew point and
\* temperature and the global cloud cover when both sources are there, the
\* regional temperature and the feelsLike made of it when the regional
\* source is alone, the global cloud cover when the global source is alone.
\* A field is null, or is the other source's value, only when the preferred
\* source has no value for it.
C28_ZeroIsNotAbsence ==
    MergeOk =>
        /\ (EnvOk /\ MeteoOk) =>
              /\ RegionalCurrent.windGust = N("0") => Cur.windGust = N("0")
              /\ RegionalCurrent.dewPoint = N("0") => Cur.dewPoint = N("0")
              /\ GlobalOrEmpty.cloud_cover = N("0") => Cur.cloudCover = N("0")
              /\ (RegionalCurrent.temperature = N("0") /\ ~IsNum(GlobalOrEmpty.temperature_2m)) =>
                    Cur.temperature = N("0")
              /\ Cur.windGust # RegionalCurrent.windGust => RegionalCurrent.windGust = null
              /\ Cur.dewPoint = null => RegionalCurrent.dewPoint = null
              /\ Cur.cloudCover = null => ~IsNum(GlobalOrEmpty.cloud_cover)
        /\ (EnvOk /\ ~MeteoOk /\ RegionalCurrent.temperature = N("0")) =>
              (Cur.temperature = N("0") /\ Cur.feelsLike = N("0"))
        /\ (~EnvOk /\ MeteoOk /\ GlobalCurrent.cloud_cover = N("0")) =>
              Cur.cloudCover = N("0")

\* A merge of both sources has returned where the regional dew point of 0
\* is published as null, the regional gust of 0 is replaced by the global
\* 40.3 and the global cloud cover of 0 is published as null.
C28_ZeroTreatedAsAbsent ==
    /\ MergeOk
    /\ EnvOk /\ MeteoOk
    /\ call.args.meteo.value.current # Missing
    /\ RegionalCurrent.dewPoint = N("0") /\ Cur.dewPoint = null
    /\ RegionalCurrent.windGust = N("0") /\ Cur.windGust = N("40.3")
    /\ GlobalCurrent.cloud_cover = N("0") /\ Cur.cloudCover = null

\* C24: for a body with an hourly section processOpenMeteoHourly returns the
\* points of consecutive hours of the series, in its order, that begin at the
\* first point whose time is not before the time of the call, or at the
\* first point of the series when every point is before it; it returns 24 of
\* them, or all that remain when the series ends sooner.
C24_HourlyWindow ==
    (call.fn = "processOpenMeteoHourly" /\ result.done /\ call.args.hourly # Missing) =>
        LET hourly == call.args.hourly[1]
            out == result.value
            allPast == \A i \in DOMAIN hourly : hourly[i].time < now
        IN /\ ~result.threw
           /\ Len(out) <= 24
           /\ \E start \in 1..(Len(hourly) + 1) :
                 /\ \A j \in 1..(start - 1) : allPast \/ hourly[j].time < now
                 /\ IF allPast THEN start = 1 ELSE hourly[start].time >= now
                 /\ Len(out) = IF Len(hourly) - start + 1 < 24 THEN Len(hourly) - start + 1 ELSE 24
                 /\ \A i \in DOMAIN out : out[i].time = hourly[start + i - 1].time

\* processOpenMeteoHourly has returned 24 points of a series of 30 that
\* begins four hours before the call: the first is the hour of the call,
\* and two hours of the series are left out at its end.
C24_Witness ==
    /\ call.fn = "processOpenMeteoHourly"
    /\ result.done
    /\ call.args.hourly # Missing
    /\ Len(call.args.hourly[1]) = 30
    /\ call.args.hourly[1][1].time = -4
    /\ Len(result.value) = 24
    /\ result.value[1].time = now
    /\ result.value[24].time = now + 23

\* The number x rounded to a tenth, the one further from 0 of two equally
\* near.
RoundedToTenth(x) == IF x < 0 THEN 0 - Nearest(0 - x, 1, Tenth) ELSE Nearest(x, 1, Tenth)

\* C23: findCityCode returns, without throwing, a code of the table: the
\* default code for text that is not a number; else the code under the key
\* spelled exactly lat,lon when there is one; else the code of the entry
\* whose key is, as text, both numbers rounded to one decimal, when there is
\* one; else the code of the entry nearest to the point, the earliest in the
\* table of several equally near.
C23_FindCityCodeTotalAndOrdered ==
    (call.fn = "findCityCode" /\ result.done) =>
        LET lat == call.args[1]
            lon == call.args[2]
            Entries == DOMAIN CITY_CODE_MAP
            exact == {i \in Entries : CITY_CODE_MAP[i].lat = lat /\ CITY_CODE_MAP[i].lon = lon}
            latNum == parseFloat(numericPrefix(lat))
            lonNum == parseFloat(numericPrefix(lon))
            OneDecimal(text) == SubSeq(text, Len(text) - 1, Len(text) - 1) = "."
            rounded == {i \in Entries :
                           /\ OneDecimal(CITY_CODE_MAP[i].lat)
                           /\ OneDecimal(CITY_CODE_MAP[i].lon)
                           /\ parseFloat(CITY_CODE_MAP[i].lat) = RoundedToTenth(latNum)
                           /\ parseFloat(CITY_CODE_MAP[i].lon) = RoundedToTenth(lonNum)}
            nearest == {i \in Entries :
                           \A j \in Entries :
                               /\ HaversineMetres[<<lat, lon>>][i] <= HaversineMetres[<<lat, lon>>][j]
                               /\ j < i => HaversineMetres[<<lat, lon>>][i] < HaversineMetres[<<lat, lon>>][j]}
        IN /\ ~result.threw
           /\ \E i \in Entries : result.value = CITY_CODE_MAP[i].code
           /\ IF isNaN(lat) \/ isNaN(lon) THEN result.value = DefaultCityCode
              ELSE IF exact # {} THEN \A i \in exact : result.value = CITY_CODE_MAP[i].code
              ELSE IF rounded # {} THEN \A i \in rounded : result.value = CITY_CODE_MAP[i].code
              ELSE /\ nearest # {}
                   /\ \A i \in nearest : result.value = CITY_CODE_MAP[i].code

\* findCityCode has returned the code of the nearest entry, the seventh of
\* the table, for a point that matches no key exactly or rounded.
C23_Witness ==
    /\ call.fn = "findCityCode"
    /\ result.done
    /\ call.args = <<"60.7", "-135.1">>
    /\ result.value = "bc-74"

(* ---------------------------- cache, continued -------------------------- *)

\* The keys that have an entry in the cache.
CachedKeys == {k \in Keys : cache[k] # Absent}

\* C25: the statistics getCacheStats returns are those of the entries in the
\* cache when it is called: totalLocations is their number, totalFetches the
\* sum of their fetchCount, totalErrors the sum of their errorCount, all 0
\* for an empty cache; what an entry that was removed had counted is not in
\* them.
C25_StatsOfCurrentEntries ==
    ev.op = "stats" =>
        /\ ev.stats.totalLocations = Cardinality(CachedKeys)
        /\ ev.stats.totalFetches = SumOver([k \in Keys |-> heap[cache[k]].fetchCount], CachedKeys)
        /\ ev.stats.totalErrors = SumOver([k \in Keys |-> heap[cache[k]].errorCount], CachedKeys)
        /\ CachedKeys = {} =>
              (ev.stats.totalLocations = 0 /\ ev.stats.totalFetches = 0 /\ ev.stats.totalErrors = 0)

\* getCacheStats has returned the counts of the one entry in the cache,
\* which has been fetched twice, while the object of an entry that was
\* removed during its refresh is still alive.
C25_Witness ==
    /\ ev.op = "stats"
    /\ ev.stats.totalLocations = 1
    /\ ev.stats.totalFetches = 2
    /\ ev.stats.totalErrors = 0
    /\ \E e \in EntryIds : heap[e] # Free /\ \A k \in Keys : cache[k] # e

\* The armed timers that refresh key k.
TimersOf(k) == {t \in intervals : getCacheKey(t.lat, t.lon) = k}

\* C26: between operations the keys with an entry in the cache are the keys
\* with a handle in refreshIntervals and the keys with an armed timer, and
\* each of them has exactly one armed timer, the one refreshIntervals holds.
C26_OneTimerPerEntry ==
    /\ CachedKeys = {k \in Keys : refreshIntervals[k] # Absent}
    /\ CachedKeys = {k \in Keys : TimersOf(k) # {}}
    /\ \A k \in CachedKeys :
          /\ Cardinality(TimersOf(k)) = 1
          /\ \A t \in TimersOf(k) : t.id = refreshIntervals[k]

\* A second startCaching for a key has completed while the entry of the
\* first was still in use: the key has the new entry and one armed timer.
C26_Witness ==
    /\ ev.op = "seed"
    /\ ev.entry[2] = 2
    /\ cache[EvKey] = ev.entry
    /\ Cardinality(TimersOf(EvKey)) = 1

\* The handler runs that belong to one key: a request, a completion of
\* startCaching, a tick, a completion of a refresh, stopCaching.
KeyedOps == {"read", "hit", "miss", "seed", "seedFailed", "tick", "tickNoEntry", "tickIgnored",
             "refreshed", "refreshFailed", "stop"}

\* C27: a run that belongs to key A (a tick, a refresh that succeeds or
\* fails, a startCaching, a stopCaching, a read) leaves every other key B as
\* it was: whether it is cached, its entry object and that object's data,
\* timestamp, fetchCount, errorCount and lastError, its handle and its armed
\* timers.
C27_OtherKeysUntouched ==
    [][ev'.op \in KeyedOps =>
            \A B \in Keys :
                B # EvKey' =>
                    /\ cache'[B] = cache[B]
                    /\ cache[B] # Absent => heap'[cache[B]] = heap[cache[B]]
                    /\ refreshIntervals'[B] = refreshIntervals[B]
                    /\ TimersOf(B)' = TimersOf(B)]_vars

\* A refresh of one key has failed, or a stopCaching of one key has run,
\* while the other key is cached, fetched twice, with its timer armed.
C27_Witness ==
    /\ ev.op \in {"refreshFailed", "stop"}
    /\ \E B \in Keys :
          /\ B # EvKey
          /\ cache[B] # Absent
          /\ heap[cache[B]].fetchCount = 2
          /\ TimersOf(B) # {}

\* C29: while a key stays in the cache its fetchCount and its errorCount
\* never decrease, and its fetchCount is at least 1.
C29_CountersNeverDecrease ==
    [][\A k \in Keys :
           (cache[k] # Absent /\ cache'[k] # Absent) =>
               /\ heap'[cache'[k]].fetchCount >= heap[cache[k]].fetchCount
               /\ heap'[cache'[k]].errorCount >= heap[cache[k]].errorCount
               /\ heap'[cache'[k]].fetchCount >= 1]_vars

\* A second startCaching for a key has completed and stored an entry that
\* counts one fetch, while the object of an earlier entry of that key, which
\* counts two, is still being refreshed.
C29_CountersReset ==
    /\ ev.op = "seed"
    /\ cache[EvKey] = ev.entry
    /\ heap[ev.entry].fetchCount = 1
    /\ \E e \in EntryIds :
          /\ e # ev.entry
          /\ e[1] = EvKey
          /\ heap[e].fetchCount = 2
          /\ refreshing[e] > 0

\* C30: once shutdown has run the cache stays torn down: no entry in the
\* cache, no handle in refreshIntervals, no armed timer, whatever completes
\* afterwards.
C30_ShutdownIsFinal ==
    isShuttingDown =>
        /\ CachedKeys = {}
        /\ \A k \in Keys : refreshIntervals[k] = Absent
        /\ intervals = {}

\* A startCaching that was in flight when shutdown ran has completed: the
\* cache has its entry and its timer is armed.
C30_EntryAfterShutdown ==
    /\ isShuttingDown
    /\ ev.op = "seed"
    /\ cache[EvKey] = ev.entry
    /\ refreshIntervals[EvKey] # Absent
    /\ TimersOf(EvKey) # {}

====
